---------------------------- MODULE Spec2Model ----------------------------
(***************************************************************************)
(* Model of bootcamp/bootcamp.py (class Bootcamp): contract validation of  *)
(* the harness and model configuration, grid expansion of hyperparameters, *)
(* run-key generation and the train/validate/write loop.                   *)
(*                                                                         *)
(* Conventions                                                             *)
(*  - a Python str is a TLA+ string; a Python dict is the sequence of its  *)
(*    items [k |-> key, v |-> value] in insertion order (keys distinct);   *)
(*  - a Python scalar that is rendered with str.format is a PyInt or a     *)
(*    PyStr record, so that 1 and "1" are different values with the same   *)
(*    rendering;                                                           *)
(*  - an exception is a record [type, msg]; NoError stands for "nothing    *)
(*    raised".                                                             *)
(* The wall-clock reads (datetime.now, strftime) of the loop carry no      *)
(* control flow and are left out of the result record.                     *)
(***************************************************************************)
EXTENDS Integers, Sequences, FiniteSets, TLC

VARIABLES
    pc,               \* position of the caller: constructor phases, loop steps
    error,            \* the exception that ended the constructor or the run
    config,           \* self.config
    bootcamp,         \* self.bootcamp: the harness object (or None)
    model_config,     \* self.model_config['models'] (ordered dict)
    models_yml,       \* the models of models.yml as loaded, before the filter
    models_arg,       \* the models argument of Bootcamp(), read at line 48
    models,           \* self.models: the Model Registry (ordered dict name -> class)
    model_instances,  \* self.model_instances
    results,          \* the results directory: one file per key
    vi,               \* _validate_model_config: index of the model being validated
    mi,               \* train_test_validate: index into self.models.items()
    param_sets,       \* the list built by the running _parameter_iterations generator
    pi,               \* index of the current param_iter in param_sets
    metrics,          \* the mapping returned by the last harness validate
    calls,            \* every plugin call and file write so far, in order
    fn                \* a direct call of one of the two pure helpers

vars == <<pc, error, config, bootcamp, model_config, models_yml, models_arg, models,
          model_instances, results, vi, mi, param_sets, pi, metrics, calls, fn>>

-----------------------------------------------------------------------------
(* Bounds of the model *)

\* models declared in one models.yml
MaxModels == 2
\* hyperparameters of one specification given to the helpers directly
MaxParams == 2
\* candidate values of one hyperparameter given to the helpers directly
MaxCand == 2

-----------------------------------------------------------------------------
(* Python values *)

PyInt(n) == [kind |-> "int", i |-> n, s |-> ""]
PyStr(t) == [kind |-> "str", i |-> 0, s |-> t]

\* "{}".format(v): str(int) is the decimal rendering, str(str) the string itself
Format(v) == IF v.kind = "int" THEN ToString(v.i) ELSE v.s

\* Code points of the characters of the strings that are ever sorted
\* (hyperparameter names); Python compares str by code point.
CodePoints(name) ==
    CASE name = "epochs"   -> <<101, 112, 111, 99, 104, 115>>
      [] name = "l1"       -> <<108, 49>>
      [] name = "l2"       -> <<108, 50>>
      [] name = "n_epochs" -> <<110, 95, 101, 112, 111, 99, 104, 115>>

\* a < b for two Python str
StrLess(a, b) ==
    LET x == CodePoints(a)
        y == CodePoints(b)
    IN \E n \in 0..Len(x) :
          /\ n <= Len(y)
          /\ \A j \in 1..n : x[j] = y[j]
          /\ \/ n = Len(x) /\ n < Len(y)
             \/ n < Len(x) /\ n < Len(y) /\ x[n + 1] < y[n + 1]

\* dict helpers
Keys(d) == {d[j].k : j \in DOMAIN d}
KeyList(d) == [j \in DOMAIN d |-> d[j].k]
Get(d, key) == (CHOOSE j \in DOMAIN d : d[j].k = key)
Lookup(d, key) == d[Get(d, key)].v
\* d1 == d2 for two Python dicts (insertion order does not matter)
DictEq(d1, d2) == {d1[j] : j \in DOMAIN d1} = {d2[j] : j \in DOMAIN d2}

\* None, or a dict
None == [isNone |-> TRUE, items |-> <<>>]
Some(d) == [isNone |-> FALSE, items |-> d]

NoError == [type |-> "", msg |-> ""]
Exception(m) == [type |-> "Exception", msg |-> m]

-----------------------------------------------------------------------------
(* Grid Expander and Key Generator *)

\* Sorted leaving the names in insertion order
Unsorted(names) == names

\* sorted(names): the names in ascending str order (dict keys are distinct)
Sorted(names) ==
    LET S == {names[j] : j \in DOMAIN names}
    IN [n \in 1..Cardinality(S) |->
          CHOOSE a \in S : Cardinality({b \in S : StrLess(b, a)}) = n - 1]

\* sep.join(strs)
RECURSIVE Join(_, _)
Join(sep, strs) ==
    IF Len(strs) = 0 THEN ""
    ELSE IF Len(strs) = 1 THEN strs[1]
    ELSE strs[1] \o sep \o Join(sep, Tail(strs))

\* Product pairing the lists element by element, as zip(*lists) does
ProductZip(lists) ==
    IF Len(lists) = 0 THEN << <<>> >>
    ELSE LET shortest == CHOOSE n \in 0..Len(lists[1]) :
                            /\ \A j \in DOMAIN lists : n <= Len(lists[j])
                            /\ \E j \in DOMAIN lists : n = Len(lists[j])
         IN [n \in 1..shortest |-> [j \in DOMAIN lists |-> lists[j][n]]]

\* Product with the index into the last list stuck at its first element
RECURSIVE ProductStuck(_)
ProductStuck(lists) ==
    IF Len(lists) = 0 THEN << <<>> >>
    ELSE LET front == ProductStuck(SubSeq(lists, 1, Len(lists) - 1))
             last == lists[Len(lists)]
         IN [n \in 1..(Len(front) * Len(last)) |->
               Append(front[((n - 1) \div Len(last)) + 1], last[1])]

\* list(itertools.product(*lists)): every tuple taking one element of each
\* list, the last list varying fastest
RECURSIVE Product(_)
Product(lists) ==
    IF Len(lists) = 0 THEN << <<>> >>
    ELSE LET front == Product(SubSeq(lists, 1, Len(lists) - 1))
             last == lists[Len(lists)]
         IN [n \in 1..(Len(front) * Len(last)) |->
               Append(front[((n - 1) \div Len(last)) + 1],
                      last[((n - 1) % Len(last)) + 1])]

\* the sequence of dicts _parameter_iterations(parameters) yields;
\* parameters is None or Some(dict name -> list of candidate values)
ParameterIterations(parameters) ==
    IF parameters.isNone \/ Len(parameters.items) = 0
    THEN << <<>> >>
    ELSE LET spec == parameters.items
             param_products == Product([j \in DOMAIN spec |-> spec[j].v])
         IN [n \in DOMAIN param_products |->
               [j \in DOMAIN spec |-> [k |-> spec[j].k, v |-> param_products[n][j]]]]

\* _model_key(model_name, parameters)
ModelKey(model_name, parameters) ==
    LET keys == Sorted(KeyList(parameters))
    IN Join("-", <<model_name,
                   Join("-", [j \in DOMAIN keys |->
                                keys[j] \o "_" \o Format(Lookup(parameters, keys[j]))])>>)

-----------------------------------------------------------------------------
(* The inputs: configuration files and plugin classes *)

\* An attribute of a class: kind "method" is a def (a bound method on an
\* instance, a function on the class), kind "none" an attribute set to None.
Attr(name, kind, params) == [name |-> name, kind |-> kind, params |-> params]

\* example/models/linear.py
LinearModel ==
    [name |-> "LinearModel",
     init |-> {"self", "n_epochs", "l1"},
     attrs |-> {Attr("train", "method", {"self", "text", "classes"}),
                Attr("predict", "method", {"self", "text"}),
                Attr("save", "method", {"self", "path"}),
                Attr("load", "method", {"self", "path"})}]

\* example/models/loglinear.py
LogLinearModel ==
    [name |-> "LogLinearModel",
     init |-> {"self", "n_epochs", "l2"},
     attrs |-> {Attr("train", "method", {"self"}),
                Attr("validate", "method", {"self"})}]

\* a model class with the single constructor argument epochs
EpochsModel ==
    [name |-> "EpochsModel",
     init |-> {"self", "epochs"},
     attrs |-> {Attr("train", "method", {"self", "text"})}]

\* a model class whose train attribute is None
NoneTrainModel ==
    [name |-> "NoneTrainModel",
     init |-> {"self", "n_epochs"},
     attrs |-> {Attr("train", "none", {})}]

\* a model class with the methods train and predict and no n_epochs argument
PredictorModel ==
    [name |-> "PredictorModel",
     init |-> {"self", "l1"},
     attrs |-> {Attr("train", "method", {"self", "text"}),
                Attr("predict", "method", {"self", "text"})}]

\* Harness classes a bootcamp.yml may name
HarnessClasses ==
    {[name |-> "Harness",
      attrs |-> {Attr("train", "method", {"model"}),
                 Attr("validate", "method", {"model"})}],
     [name |-> "HarnessNoValidate",
      attrs |-> {Attr("train", "method", {"model"})}],
     [name |-> "HarnessNoneValidate",
      attrs |-> {Attr("train", "method", {"model"}),
                 Attr("validate", "none", {})}],
     [name |-> "HarnessNoModelArg",
      attrs |-> {Attr("train", "method", {}),
                 Attr("validate", "method", {"model"})}]}

HasAttr(cls, name) == \E a \in cls.attrs : a.name = name
GetAttr(cls, name) == CHOOSE a \in cls.attrs : a.name = name

\* one entry of model_requirements.methods: a plain name, or a one-item
\* dict {name: [required argument names]}
Method(name) == [name |-> name, isDict |-> FALSE, args |-> <<>>]
MethodWith(name, args) == [name |-> name, isDict |-> TRUE, args |-> args]

ConfigKeys ==
    {"bootcamp", "bootcamp.module", "bootcamp.callable",
     "model_requirements", "model_requirements.validation_metrics",
     "model_requirements.methods", "model_requirements.parameters"}

\* a key set a YAML document can have: a nested key needs its parent
WellFormedKeys(K) ==
    /\ K \cap {"bootcamp.module", "bootcamp.callable"} # {} => "bootcamp" \in K
    /\ K \cap {"model_requirements.validation_metrics",
               "model_requirements.methods",
               "model_requirements.parameters"} # {} => "model_requirements" \in K

\* the complete harness configurations
BaseConfigs ==
    {[validation_metrics |-> <<"AUC">>,
      methods |-> <<Method("train")>>,
      parameters |-> <<>>],
     [validation_metrics |-> <<"AUC", "F1">>,
      methods |-> <<MethodWith("train", <<"text">>), Method("predict")>>,
      parameters |-> <<"n_epochs">>],
     [validation_metrics |-> <<>>,
      methods |-> <<Method("validate")>>,
      parameters |-> <<>>]}

\* a base configuration with only the keys K kept
Restrict(base, K) ==
    [keys |-> K,
     validation_metrics |->
        IF "model_requirements.validation_metrics" \in K
        THEN base.validation_metrics ELSE <<>>,
     methods |-> IF "model_requirements.methods" \in K THEN base.methods ELSE <<>>,
     parameters |->
        IF "model_requirements.parameters" \in K THEN base.parameters ELSE <<>>]

\* what yaml.load(config) may return
HarnessConfigs ==
    {Restrict(base, K) : base \in BaseConfigs,
                         K \in {K \in SUBSET ConfigKeys : WellFormedKeys(K)}}

\* one entry of models.yml: name -> {module, callable, parameters}; importable
\* says whether module.callable resolves, cls is the class it resolves to
ModelEntry(name, keys, importable, cls, parameters) ==
    [name |-> name, keys |-> keys, importable |-> importable, cls |-> cls,
     parameters |-> parameters]

Item(k, v) == [k |-> k, v |-> v]

ModelCatalogue ==
    {ModelEntry("linear", {"module", "callable", "parameters"}, TRUE, LinearModel,
                <<Item("n_epochs", <<PyInt(1), PyInt(2)>>), Item("l1", <<PyInt(5)>>)>>),
     ModelEntry("loglinear", {"module", "callable"}, TRUE, LogLinearModel, <<>>),
     ModelEntry("modelName", {"module", "callable", "parameters"}, TRUE, EpochsModel,
                <<Item("epochs", <<PyInt(1), PyInt(2)>>)>>),
     ModelEntry("repeat", {"module", "callable", "parameters"}, TRUE, EpochsModel,
                <<Item("epochs", <<PyInt(3), PyInt(3)>>)>>),
     ModelEntry("mixed", {"module", "callable", "parameters"}, TRUE, LogLinearModel,
                <<Item("l2", <<PyInt(1), PyStr("1")>>)>>),
     ModelEntry("empty", {"module", "callable", "parameters"}, TRUE, LinearModel,
                <<Item("n_epochs", <<PyInt(1)>>), Item("l1", <<>>)>>),
     ModelEntry("badarg", {"module", "callable", "parameters"}, TRUE, LogLinearModel,
                <<Item("l1", <<PyInt(1)>>)>>),
     ModelEntry("nonetrain", {"module", "callable"}, TRUE, NoneTrainModel, <<>>),
     ModelEntry("predictor", {"module", "callable", "parameters"}, TRUE, PredictorModel,
                <<Item("n_epochs", <<PyInt(1)>>)>>),
     ModelEntry("nomodule", {"callable"}, TRUE, LinearModel, <<>>),
     ModelEntry("nocallable", {"module"}, TRUE, LinearModel, <<>>),
     ModelEntry("broken", {"module", "callable"}, FALSE, LinearModel, <<>>)}

\* the sequences over S of length at most n
RECURSIVE SeqsUpTo(_, _)
SeqsUpTo(S, n) ==
    IF n = 0 THEN {<<>>}
    ELSE LET shorter == SeqsUpTo(S, n - 1)
         IN shorter \cup {Append(q, e) : q \in {q \in shorter : Len(q) = n - 1}, e \in S}

\* the keys of a YAML mapping are distinct
DistinctNames(q) == \A a, b \in DOMAIN q : a # b => q[a].name # q[b].name

\* what yaml.load(model_config)['models'] may return: up to MaxModels entries
ModelConfigs == {q \in SeqsUpTo(ModelCatalogue, MaxModels) : DistinctNames(q)}

\* the models argument of Bootcamp(): None, a list of names, or one name
NoFilter == [kind |-> "none", list |-> <<>>, str |-> ""]
ListFilter(names) == [kind |-> "list", list |-> names, str |-> ""]
StrFilter(name) == [kind |-> "str", list |-> <<>>, str |-> name]
Filters ==
    {NoFilter, ListFilter(<<>>), ListFilter(<<"loglinear", "badarg">>),
     StrFilter("loglinear"), StrFilter("absent")}

\* what the harness's validate may return
MetricMappings ==
    {<<>>,
     <<Item("AUC", PyInt(66))>>,
     <<Item("AUC", PyInt(50)), Item("F1", PyInt(7))>>}

-----------------------------------------------------------------------------
(* Contract Validator *)

\* the first exception raised by a sequence of checks (NoError: none raised)
FirstError(errs) ==
    IF \E j \in DOMAIN errs : errs[j] # NoError
    THEN errs[CHOOSE j \in DOMAIN errs :
                 /\ errs[j] # NoError
                 /\ \A h \in 1..(j - 1) : errs[h] = NoError]
    ELSE NoError

\* getattr(obj, name) on an object without that attribute
AttributeError(cls, name) ==
    [type |-> "AttributeError",
     msg |-> "'" \o cls.name \o "' object has no attribute '" \o name \o "'"]

\* importlib.import_module / getattr(module, callable) of the harness fails
ImportError == [type |-> "ImportError", msg |-> "No module named bootcamp.module"]

\* open(results_path, 'w') fails, e.g. the results directory does not exist
OSError == [type |-> "OSError", msg |-> "No such file or directory"]

\* an exception raised by the plugin code of the harness or of a model
PluginError(method) == [type |-> "PluginError", msg |-> method]

\* ConfigKeyError with the message of the validation_metrics check pasted into
\* the methods check
ConfigKeyErrorPastedMessage(cfg) ==
    IF "bootcamp" \notin cfg.keys
    THEN Exception("Configuration must specify the Python 'bootcamp' class: bootcamp")
    ELSE IF "bootcamp.module" \notin cfg.keys
    THEN Exception("Configuration must specify the module with the Python bootcamp class: bootcamp.module")
    ELSE IF "bootcamp.callable" \notin cfg.keys
    THEN Exception("Configuration must specify the name of the callable class within the Python bootcamp module: bootcamp.callable")
    ELSE IF "model_requirements" \notin cfg.keys
    THEN Exception("Configuration must specify the requirements for models: model_requirements")
    ELSE IF "model_requirements.validation_metrics" \notin cfg.keys
    THEN Exception("Models must be assessed with at least one validation metric: model_requirements.validation_metrics")
    ELSE IF "model_requirements.methods" \notin cfg.keys
    THEN Exception("Models must be assessed with at least one validation metric: model_requirements.validation_metrics")
    ELSE NoError

\* _validate_config, the if/elif chain over the keys of self.config
ConfigKeyError(cfg) ==
    IF "bootcamp" \notin cfg.keys
    THEN Exception("Configuration must specify the Python 'bootcamp' class: bootcamp")
    ELSE IF "bootcamp.module" \notin cfg.keys
    THEN Exception("Configuration must specify the module with the Python bootcamp class: bootcamp.module")
    ELSE IF "bootcamp.callable" \notin cfg.keys
    THEN Exception("Configuration must specify the name of the callable class within the Python bootcamp module: bootcamp.callable")
    ELSE IF "model_requirements" \notin cfg.keys
    THEN Exception("Configuration must specify the requirements for models: model_requirements")
    ELSE IF "model_requirements.validation_metrics" \notin cfg.keys
    THEN Exception("Models must be assessed with at least one validation metric: model_requirements.validation_metrics")
    ELSE IF "model_requirements.methods" \notin cfg.keys
    THEN Exception("Model requirements must include methods: model_requirements.methods")
    ELSE NoError

\* _validate_config, the check of one required method of the harness object
\* (the message names the class instead of module.callable)
HarnessMethodError(cls, method_name) ==
    IF ~HasAttr(cls, method_name) THEN AttributeError(cls, method_name)
    ELSE IF GetAttr(cls, method_name).kind # "method"
    THEN Exception("Basecamp class at " \o cls.name \o " does not have required "
                   \o method_name \o "() method.")
    ELSE IF "model" \notin GetAttr(cls, method_name).params
    THEN Exception(method_name \o "() in the bootcamp class must accept a 'model' as an argument")
    ELSE NoError

\* _validate_config, the loop over required_methods
HarnessError(cls) ==
    FirstError(<<HarnessMethodError(cls, "train"), HarnessMethodError(cls, "validate")>>)

\* _validate_config, the default of model_requirements.parameters
WithDefaultParameters(cfg) ==
    IF "model_requirements.parameters" \in cfg.keys THEN cfg
    ELSE [cfg EXCEPT !.keys = @ \cup {"model_requirements.parameters"},
                     !.parameters = <<>>]

\* _validate_model_config, the check of one entry of model_requirements.methods
ModelMethodError(model_name, cls, required_method) ==
    LET method_name == required_method.name
        required_arguments == IF required_method.isDict THEN required_method.args ELSE <<>>
    IN IF ~HasAttr(cls, method_name) THEN AttributeError(cls, method_name)
       ELSE IF GetAttr(cls, method_name).kind = "none"
       THEN Exception(model_name \o " does not have the required " \o method_name \o "() method")
       ELSE FirstError([j \in DOMAIN required_arguments |->
               IF required_arguments[j] \notin GetAttr(cls, method_name).params
               THEN Exception(required_arguments[j] \o " argument not found in "
                              \o model_name \o "." \o method_name
                              \o "(), but all models are required to have this.")
               ELSE NoError])

\* _validate_model_config, the global parameters against __init__
GlobalParameterError(model_name, cls, cfg) ==
    FirstError([j \in DOMAIN cfg.parameters |->
        IF cfg.parameters[j] \notin cls.init
        THEN Exception(cfg.parameters[j] \o " argument not found in " \o model_name
                       \o ".__init__(), but all models are required to have this.")
        ELSE NoError])

\* ModelParameterError without the check of the length of the value lists
ModelParameterErrorNoLength(entry) ==
    IF "parameters" \notin entry.keys THEN NoError
    ELSE FirstError([j \in DOMAIN entry.parameters |->
        IF entry.parameters[j].k \notin entry.cls.init
        THEN Exception(entry.parameters[j].k \o " argument not found in " \o entry.name
                       \o ".__init__(), but it was specified as a hyper-parameter.")
        ELSE NoError])

\* ModelParameterError without the check of the names against __init__
ModelParameterErrorNoName(entry) ==
    IF "parameters" \notin entry.keys THEN NoError
    ELSE FirstError([j \in DOMAIN entry.parameters |->
        IF Len(entry.parameters[j].v) = 0
        THEN Exception("Hyper-parameter values for " \o entry.name
                       \o " must be a non-zero length list")
        ELSE NoError])

\* _validate_model_config, the model-specific parameters
ModelParameterError(entry) ==
    IF "parameters" \notin entry.keys THEN NoError
    ELSE FirstError([j \in DOMAIN entry.parameters |->
        IF Len(entry.parameters[j].v) = 0
        THEN Exception("Hyper-parameter values for " \o entry.name
                       \o " must be a non-zero length list")
        ELSE IF entry.parameters[j].k \notin entry.cls.init
        THEN Exception(entry.parameters[j].k \o " argument not found in " \o entry.name
                       \o ".__init__(), but it was specified as a hyper-parameter.")
        ELSE NoError])

\* _validate_model_config, what is raised before the class is registered
ModelImportError(entry) ==
    IF "module" \notin entry.keys
    THEN Exception(entry.name \o " is missing the 'module' attribution")
    ELSE IF "callable" \notin entry.keys
    THEN Exception(entry.name \o " is missing the 'callable' attribution")
    ELSE IF ~entry.importable
    THEN Exception("Failed to import module for " \o entry.name)
    ELSE NoError

\* _validate_model_config, the checks of a class once it is registered
ModelContractError(entry, cfg) ==
    FirstError(<<FirstError([j \in DOMAIN cfg.methods |->
                     ModelMethodError(entry.name, entry.cls, cfg.methods[j])]),
                 GlobalParameterError(entry.name, entry.cls, cfg),
                 ModelParameterError(entry)>>)

\* Bootcamp.__init__, the models filter applied to model_config['models']
ApplyFilter(declared, filter) ==
    IF \/ filter.kind = "list" /\ Len(filter.list) > 0
       \/ filter.kind = "str" /\ filter.str # ""
    THEN LET names == IF filter.kind = "str" THEN {filter.str}
                      ELSE {filter.list[j] : j \in DOMAIN filter.list}
         IN SelectSeq(declared, LAMBDA e : e.name \in names)
    ELSE declared

-----------------------------------------------------------------------------
(* State *)

NoHarness == [isNone |-> TRUE, cls |-> [name |-> "", attrs |-> {}]]
HarnessObject(cls) == [isNone |-> FALSE, cls |-> cls]

NoCall == [op |-> "idle"]

\* an event of the log: op is "init" (model(**param_iter)), "train",
\* "validate" (calls into the harness) or "write" (json.dump to the key's file);
\* obj is the model instance passed, ret the mapping a validate returned
Call(op, model_name, key, obj, ret) ==
    [op |-> op, model |-> model_name, key |-> key, obj |-> obj, ret |-> ret]

\* the number of model objects constructed so far
Instantiated == Cardinality({j \in DOMAIN calls : calls[j].op = "init"})

\* d[key] = value for a store d of records with a key field
Store(d, key, rec) == {r \in d : r.key # key} \cup {rec}

\* the entry of self.model_config['models'] for a registered model
Declared(model_name) ==
    model_config[CHOOSE j \in DOMAIN model_config : model_config[j].name = model_name]

Init ==
    /\ pc = "construct"
    /\ error = NoError
    /\ config \in HarnessConfigs
    /\ bootcamp = NoHarness
    /\ model_config = <<>>
    /\ models_yml = <<>>
    /\ models_arg = NoFilter
    /\ models = <<>>
    /\ model_instances = {}
    /\ results = {}
    /\ vi = 0
    /\ mi = 0
    /\ param_sets = <<>>
    /\ pi = 0
    /\ metrics = <<>>
    /\ calls = <<>>
    /\ fn = NoCall

\* raise: the exception leaves the constructor or train_test_validate
Raise(e, where) ==
    /\ error' = e
    /\ pc' = where

-----------------------------------------------------------------------------
(* Bootcamp.__init__ *)

\* lines 38-40: self._validate_config(), the configuration keys are rejected
ValidateConfigKeys ==
    /\ pc = "construct"
    /\ ConfigKeyError(config) # NoError
    /\ Raise(ConfigKeyError(config), "failed")
    /\ UNCHANGED <<config, bootcamp, model_config, models_yml, models_arg, models,
                   model_instances, results, vi, mi, param_sets, pi, metrics, calls, fn>>

\* lines 149-150: the harness module or class cannot be imported
ValidateConfigImportFails ==
    /\ pc = "construct"
    /\ ConfigKeyError(config) = NoError
    /\ Raise(ImportError, "failed")
    /\ UNCHANGED <<config, bootcamp, model_config, models_yml, models_arg, models,
                   model_instances, results, vi, mi, param_sets, pi, metrics, calls, fn>>

\* lines 149-167: the harness class is instantiated and its methods checked
ValidateConfigHarness ==
    /\ pc = "construct"
    /\ ConfigKeyError(config) = NoError
    /\ \E cls \in HarnessClasses :
          /\ bootcamp' = HarnessObject(cls)
          /\ IF HarnessError(cls) # NoError
             THEN /\ Raise(HarnessError(cls), "failed")
                  /\ UNCHANGED config
             ELSE /\ config' = WithDefaultParameters(config)
                  /\ pc' = "config_ok"
                  /\ UNCHANGED error
    /\ UNCHANGED <<model_config, models_yml, models_arg, models, model_instances,
                   results, vi, mi, param_sets, pi, metrics, calls, fn>>

\* lines 43-53: the model configuration is loaded and filtered with the models
\* argument; models_yml keeps what was loaded, models_arg what was passed
LoadModelConfig ==
    /\ pc = "config_ok"
    /\ \E loaded \in ModelConfigs, filter \in Filters :
          /\ models_yml' = loaded
          /\ models_arg' = filter
          /\ model_config' = ApplyFilter(loaded, filter)
    /\ pc' = "models_loaded"
    /\ UNCHANGED <<error, config, bootcamp, models, model_instances, results,
                   vi, mi, param_sets, pi, metrics, calls, fn>>

\* lines 171-172: at least one model
ValidateModelConfigBegin ==
    /\ pc = "models_loaded"
    /\ IF Len(model_config) = 0
       THEN /\ Raise(Exception("One or more models must be submitted to bootcamp: models"),
                     "failed")
            /\ UNCHANGED vi
       ELSE /\ pc' = "validate_model"
            /\ vi' = 1
            /\ UNCHANGED error
    /\ UNCHANGED <<config, bootcamp, model_config, models_yml, models_arg, models,
                   model_instances, results, mi, param_sets, pi, metrics, calls, fn>>

\* ValidateModel with the contract violations of a registered class ignored
ValidateModelIgnoringViolations ==
    /\ pc = "validate_model"
    /\ LET entry == model_config[vi]
       IN IF ModelImportError(entry) # NoError
          THEN /\ Raise(ModelImportError(entry), "failed")
               /\ UNCHANGED <<models, vi>>
          ELSE /\ models' = Append(models, [name |-> entry.name, cls |-> entry.cls])
               /\ UNCHANGED error
               /\ IF vi < Len(model_config)
                  THEN /\ vi' = vi + 1
                       /\ UNCHANGED pc
                  ELSE /\ pc' = "ready"
                       /\ UNCHANGED vi
    /\ UNCHANGED <<config, bootcamp, model_config, models_yml, models_arg, model_instances, results,
                   mi, param_sets, pi, metrics, calls, fn>>

\* ValidateModel with the class registered after its checks, not before
ValidateModelRegisteringLast ==
    /\ pc = "validate_model"
    /\ LET entry == model_config[vi]
       IN IF ModelImportError(entry) # NoError
          THEN /\ Raise(ModelImportError(entry), "failed")
               /\ UNCHANGED <<models, vi>>
          ELSE IF ModelContractError(entry, config) # NoError
          THEN /\ Raise(ModelContractError(entry, config), "failed")
               /\ UNCHANGED <<models, vi>>
          ELSE /\ models' = Append(models, [name |-> entry.name, cls |-> entry.cls])
               /\ UNCHANGED error
               /\ IF vi < Len(model_config)
                  THEN /\ vi' = vi + 1
                       /\ UNCHANGED pc
                  ELSE /\ pc' = "ready"
                       /\ UNCHANGED vi
    /\ UNCHANGED <<config, bootcamp, model_config, models_yml, models_arg, model_instances, results,
                   mi, param_sets, pi, metrics, calls, fn>>

\* lines 174-225, one iteration of the loop over the declared models; after
\* the last one the constructor returns (lines 57-58)
ValidateModel ==
    /\ pc = "validate_model"
    /\ LET entry == model_config[vi]
       IN IF ModelImportError(entry) # NoError
          THEN /\ Raise(ModelImportError(entry), "failed")
               /\ UNCHANGED <<models, vi>>
          ELSE /\ models' = Append(models, [name |-> entry.name, cls |-> entry.cls])
               /\ IF ModelContractError(entry, config) # NoError
                  THEN /\ Raise(ModelContractError(entry, config), "failed")
                       /\ UNCHANGED vi
                  ELSE /\ UNCHANGED error
                       /\ IF vi < Len(model_config)
                          THEN /\ vi' = vi + 1
                               /\ UNCHANGED pc
                          ELSE /\ pc' = "ready"
                               /\ UNCHANGED vi
    /\ UNCHANGED <<config, bootcamp, model_config, models_yml, models_arg, model_instances, results,
                   mi, param_sets, pi, metrics, calls, fn>>

-----------------------------------------------------------------------------
(* Bootcamp.train_test_validate *)

\* the call on a constructed Bootcamp: the loop over self.models.items() starts
TrainTestValidate ==
    /\ pc = "ready"
    /\ pc' = "model"
    /\ mi' = 1
    /\ UNCHANGED <<error, config, bootcamp, model_config, models_yml, models_arg, models, model_instances,
                   results, vi, param_sets, pi, metrics, calls, fn>>

\* BeginModel taking the parameters out of the model's configuration entry
BeginModelPopping ==
    /\ pc = "model"
    /\ mi <= Len(models)
    /\ LET entry == Declared(models[mi].name)
           parameter_iterations ==
               IF "parameters" \in entry.keys THEN Some(entry.parameters) ELSE None
       IN /\ param_sets' = ParameterIterations(parameter_iterations)
          /\ model_config' =
                [j \in DOMAIN model_config |->
                    IF model_config[j].name = entry.name
                    THEN [entry EXCEPT !.keys = @ \ {"parameters"}, !.parameters = <<>>]
                    ELSE model_config[j]]
    /\ pi' = 1
    /\ pc' = "iterate"
    /\ UNCHANGED <<error, config, bootcamp, models_yml, models_arg, models,
                   model_instances, results, vi, mi, metrics, calls, fn>>

\* lines 64-69: the next registered model and the generator over its grid
BeginModel ==
    /\ pc = "model"
    /\ mi <= Len(models)
    /\ LET entry == Declared(models[mi].name)
           parameter_iterations ==
               IF "parameters" \in entry.keys THEN Some(entry.parameters) ELSE None
       IN param_sets' = ParameterIterations(parameter_iterations)
    /\ pi' = 1
    /\ pc' = "iterate"
    /\ UNCHANGED <<error, config, bootcamp, model_config, models_yml, models_arg, models, model_instances,
                   results, vi, mi, metrics, calls, fn>>

\* line 64: self.models.items() is exhausted, train_test_validate returns
EndRun ==
    /\ pc = "model"
    /\ mi > Len(models)
    /\ pc' = "done"
    /\ UNCHANGED <<error, config, bootcamp, model_config, models_yml, models_arg, models, model_instances,
                   results, vi, mi, param_sets, pi, metrics, calls, fn>>

\* the model and the key of the iteration in progress
CurrentModel == models[mi]
\* CurrentKey computed from the first assignment of the grid
CurrentKeyOfFirst == ModelKey(CurrentModel.name, param_sets[1])

CurrentKey == ModelKey(CurrentModel.name, param_sets[pi])
\* CurrentObject looked up under the key of the first assignment of the grid
CurrentObjectOfFirstKey ==
    (CHOOSE r \in model_instances : r.key = ModelKey(CurrentModel.name, param_sets[1])).object

CurrentObject == (CHOOSE r \in model_instances : r.key = CurrentKey).object

\* Instantiate with the instances of the earlier iterations dropped
InstantiateReleasing ==
    /\ pc = "iterate"
    /\ pi <= Len(param_sets)
    /\ \/ /\ LET object == [cls |-> CurrentModel.cls.name, kwargs |-> param_sets[pi],
                            id |-> Instantiated + 1]
             IN /\ model_instances' =
                      {[key |-> CurrentKey, object |-> object,
                        parameters |-> param_sets[pi]]}
                /\ calls' = Append(calls, Call("init", CurrentModel.name, CurrentKey,
                                               object, <<>>))
          /\ pc' = "train"
          /\ UNCHANGED error
       \/ /\ Raise(PluginError("__init__"), "aborted")
          /\ UNCHANGED <<model_instances, calls>>
    /\ UNCHANGED <<config, bootcamp, model_config, models_yml, models_arg, models,
                   results, vi, mi, param_sets, pi, metrics, fn>>

\* lines 69-82: the next param_iter, its key, the model instance; the
\* constructor of the plugin class returns or raises
Instantiate ==
    /\ pc = "iterate"
    /\ pi <= Len(param_sets)
    /\ \/ /\ LET object == [cls |-> CurrentModel.cls.name, kwargs |-> param_sets[pi],
                            id |-> Instantiated + 1]
             IN /\ model_instances' =
                      Store(model_instances, CurrentKey,
                            [key |-> CurrentKey, object |-> object,
                             parameters |-> param_sets[pi]])
                /\ calls' = Append(calls, Call("init", CurrentModel.name, CurrentKey,
                                               object, <<>>))
          /\ pc' = "train"
          /\ UNCHANGED error
       \/ /\ Raise(PluginError("__init__"), "aborted")
          /\ UNCHANGED <<model_instances, calls>>
    /\ UNCHANGED <<config, bootcamp, model_config, models_yml, models_arg, models,
                   results, vi, mi, param_sets, pi, metrics, fn>>

\* EndModel leaving the loop over the grid once one assignment has been run
EndModelEarly ==
    /\ pc = "iterate"
    /\ pi > 1
    /\ mi' = mi + 1
    /\ pc' = "model"
    /\ UNCHANGED <<error, config, bootcamp, model_config, models_yml, models_arg, models,
                   model_instances, results, vi, param_sets, pi, metrics, calls, fn>>

\* line 69: the generator is exhausted, on to the next model
EndModel ==
    /\ pc = "iterate"
    /\ pi > Len(param_sets)
    /\ mi' = mi + 1
    /\ pc' = "model"
    /\ UNCHANGED <<error, config, bootcamp, model_config, models_yml, models_arg, models, model_instances,
                   results, vi, param_sets, pi, metrics, calls, fn>>

\* Train with the plugin's exception caught and the loop carrying on
TrainSwallowing ==
    /\ pc = "train"
    /\ calls' = Append(calls, Call("train", CurrentModel.name, CurrentKey,
                                   CurrentObject, <<>>))
    /\ \/ pc' = "validate" /\ UNCHANGED error
       \/ pc' = "validate" /\ error' = PluginError("train")
    /\ UNCHANGED <<config, bootcamp, model_config, models_yml, models_arg, models,
                   model_instances, results, vi, mi, param_sets, pi, metrics, fn>>

\* line 85: self.bootcamp.train(model=...); the plugin returns or raises
Train ==
    /\ pc = "train"
    /\ calls' = Append(calls, Call("train", CurrentModel.name, CurrentKey,
                                   CurrentObject, <<>>))
    /\ \/ pc' = "validate" /\ UNCHANGED error
       \/ Raise(PluginError("train"), "aborted")
    /\ UNCHANGED <<config, bootcamp, model_config, models_yml, models_arg, models,
                   model_instances, results, vi, mi, param_sets, pi, metrics, fn>>

\* line 89: metrics = self.bootcamp.validate(model=...); returns a mapping or raises
Validate ==
    /\ pc = "validate"
    /\ \/ /\ \E returned \in MetricMappings :
                /\ metrics' = returned
                /\ calls' = Append(calls, Call("validate", CurrentModel.name, CurrentKey,
                                               CurrentObject, returned))
          /\ pc' = "check"
          /\ UNCHANGED error
       \/ /\ Raise(PluginError("validate"), "aborted")
          /\ calls' = Append(calls, Call("validate", CurrentModel.name, CurrentKey,
                                         CurrentObject, <<>>))
          /\ UNCHANGED metrics
    /\ UNCHANGED <<config, bootcamp, model_config, models_yml, models_arg, models,
                   model_instances, results, vi, mi, param_sets, pi, fn>>

\* MetricError looking at the first required metric only
MetricErrorFirstOnly(model_name, required, returned) ==
    IF Len(required) > 0 /\ required[1] \notin Keys(returned)
    THEN Exception("Validation results for " \o model_name \o " did not include the "
                   \o required[1] \o " metric")
    ELSE NoError

\* lines 91-93: the first required metric the mapping lacks
MetricError(model_name, required, returned) ==
    FirstError([j \in DOMAIN required |->
        IF required[j] \notin Keys(returned)
        THEN Exception("Validation results for " \o model_name \o " did not include the "
                       \o required[j] \o " metric")
        ELSE NoError])

\* lines 91-93: every required metric is in the mapping, or the run is aborted
CheckMetrics ==
    /\ pc = "check"
    /\ LET e == MetricError(CurrentModel.name, config.validation_metrics, metrics)
       IN IF e # NoError
          THEN Raise(e, "aborted")
          ELSE pc' = "write" /\ UNCHANGED error
    /\ UNCHANGED <<config, bootcamp, model_config, models_yml, models_arg, models,
                   model_instances, results, vi, mi, param_sets, pi, metrics, calls, fn>>

\* ResultsJson holding the first assignment of the grid, not the current one
ResultsJsonStale ==
    [model |-> CurrentModel.name, parameters |-> param_sets[1], metrics |-> metrics]

\* lines 101-109: results_json
ResultsJson == [model |-> CurrentModel.name, parameters |-> param_sets[pi], metrics |-> metrics]

\* lines 101-115: the record is written to <results_path>/<model_key>.json, or
\* open() fails and nothing is written
WriteResult ==
    /\ pc = "write"
    /\ \/ /\ results' = Store(results, CurrentKey,
                              [key |-> CurrentKey, json |-> ResultsJson])
          /\ calls' = Append(calls, Call("write", CurrentModel.name, CurrentKey,
                                         CurrentObject, <<>>))
          /\ pi' = pi + 1
          /\ pc' = "iterate"
          /\ UNCHANGED error
       \/ /\ Raise(OSError, "aborted")
          /\ UNCHANGED <<results, calls, pi>>
    /\ UNCHANGED <<config, bootcamp, model_config, models_yml, models_arg, models,
                   model_instances, vi, mi, param_sets, metrics, fn>>

Next ==
    \/ ValidateConfigKeys
    \/ ValidateConfigImportFails
    \/ ValidateConfigHarness
    \/ LoadModelConfig
    \/ ValidateModelConfigBegin
    \/ ValidateModel
    \/ TrainTestValidate
    \/ BeginModel
    \/ EndRun
    \/ Instantiate
    \/ EndModel
    \/ Train
    \/ Validate
    \/ CheckMetrics
    \/ WriteResult

Spec == Init /\ [][Next]_vars

\* a step of train_test_validate once it is called
RunStep ==
    \/ BeginModel
    \/ EndRun
    \/ Instantiate
    \/ EndModel
    \/ Train
    \/ Validate
    \/ CheckMetrics
    \/ WriteResult

\* the positions inside train_test_validate and the two at which it ends
LoopPositions == {"model", "iterate", "train", "validate", "check", "write"}
EndPositions == {"done", "aborted"}

\* train_test_validate is somewhere in its loops
Running == pc \in LoopPositions

\* the move of a running train_test_validate to another position. A step of
\* Next taken in a Running state is a RunStep, every RunStep changes pc, and
\* a RunStep is enabled in every Running state, so weak fairness of Advance
\* under [Next]_vars is weak fairness of RunStep.
Advance ==
    /\ Running
    /\ \E position \in LoopPositions \cup EndPositions :
          position # pc /\ pc' = position

\* train_test_validate is sequential code: once called, it takes its next step
SpecLive == Spec /\ WF_pc(Advance)

-----------------------------------------------------------------------------
(* The two helpers called directly: _parameter_iterations and _model_key *)

ParamNames == {"epochs", "l1", "n_epochs"}
CandValues == {PyInt(1), PyStr("1")}
KeyValues == {PyInt(1), PyInt(2), PyStr("1")}
ModelNames == {"linear", "modelName"}

DistinctKeys(d) == \A a, b \in DOMAIN d : a # b => d[a].k # d[b].k

\* hyperparameter specifications: name -> list of candidate values
ParamSpecs ==
    {None} \cup
    {Some(d) : d \in {d \in SeqsUpTo({Item(k, v) : k \in ParamNames,
                                                  v \in SeqsUpTo(CandValues, MaxCand)},
                                     MaxParams) : DistinctKeys(d)}}

\* parameter assignments: name -> value, in every insertion order
Assignments ==
    {d \in SeqsUpTo({Item(k, v) : k \in ParamNames, v \in KeyValues},
                    Cardinality(ParamNames)) : DistinctKeys(d)}

InitFn ==
    /\ pc = "helpers"
    /\ error = NoError
    /\ config = WithDefaultParameters(Restrict(CHOOSE b \in BaseConfigs : TRUE, ConfigKeys))
    /\ bootcamp = NoHarness
    /\ model_config = <<>>
    /\ models_yml = <<>>
    /\ models_arg = NoFilter
    /\ models = <<>>
    /\ model_instances = {}
    /\ results = {}
    /\ vi = 0
    /\ mi = 0
    /\ param_sets = <<>>
    /\ pi = 0
    /\ metrics = <<>>
    /\ calls = <<>>
    /\ fn = NoCall

\* list(self._parameter_iterations(parameters))
CallParameterIterations ==
    /\ fn.op = "idle"
    /\ \E parameters \in ParamSpecs :
          fn' = [op |-> "parameter_iterations", parameters |-> parameters,
                 yielded |-> ParameterIterations(parameters)]
    /\ UNCHANGED <<pc, error, config, bootcamp, model_config, models_yml, models_arg, models, model_instances,
                   results, vi, mi, param_sets, pi, metrics, calls>>

\* self._model_key(model_name, parameters)
CallModelKey ==
    /\ fn.op = "idle"
    /\ \E model_name \in ModelNames, parameters \in Assignments :
          fn' = [op |-> "model_key", model_name |-> model_name, parameters |-> parameters,
                 key |-> ModelKey(model_name, parameters)]
    /\ UNCHANGED <<pc, error, config, bootcamp, model_config, models_yml, models_arg, models, model_instances,
                   results, vi, mi, param_sets, pi, metrics, calls>>

NextFn ==
    \/ CallParameterIterations
    \/ CallModelKey

SpecFn == InitFn /\ [][NextFn]_vars

-----------------------------------------------------------------------------
(* Claims *)

\* the harness and every selected model passed every check of the validator
ValidationPassed ==
    /\ ConfigKeyError(config) = NoError
    /\ ~bootcamp.isNone
    /\ HarnessError(bootcamp.cls) = NoError
    /\ Len(model_config) > 0
    /\ \A j \in DOMAIN model_config :
          /\ ModelImportError(model_config[j]) = NoError
          /\ ModelContractError(model_config[j], config) = NoError

\* a step of the execution loop
LoopStep ==
    TrainTestValidate \/ BeginModel \/ Instantiate \/ Train \/ Validate
        \/ CheckMetrics \/ WriteResult

\* C1: a plugin call or a result write implies that the harness and every
\* selected model passed validation; once the constructor has failed, nothing
\* has been called or written and no step of the loop can be taken.
C1_ValidationGatesRun ==
    /\ (calls # <<>> \/ results # {} \/ model_instances # {}) => ValidationPassed
    /\ pc = "failed" =>
          /\ error # NoError
          /\ calls = <<>>
          /\ results = {}
          /\ ~ENABLED LoopStep

\* C1 witness: validation failed at a later model, after a class was registered
C1_Witness ==
    /\ pc = "failed"
    /\ error.type = "Exception"
    /\ Len(models) > 0
    /\ ~ValidationPassed

\* the required metrics the returned mapping lacks
MissingMetrics ==
    {config.validation_metrics[j] : j \in DOMAIN config.validation_metrics} \ Keys(metrics)

\* C2: when the mapping returned by validate lacks a required metric, the
\* metric check raises an error naming the model and a missing metric, and the
\* result store is left as it was, by that step and ever after.
C2_MissingMetricAborts ==
    [][/\ (pc = "check" /\ MissingMetrics # {}) =>
             /\ pc' = "aborted"
             /\ results' = results
             /\ \E m \in MissingMetrics :
                   error' = Exception("Validation results for " \o CurrentModel.name
                                      \o " did not include the " \o m \o " metric")
       /\ pc = "aborted" => results' = results]_vars

\* C2 witness: the metric check has failed after an earlier record was written
C2_Witness ==
    /\ pc = "aborted"
    /\ error.type = "Exception"
    /\ MissingMetrics # {}
    /\ results # {}

\* C3: the step at which train, validate or the metric check fails writes
\* nothing, and once an error is raised no model is instantiated, trained,
\* validated or written any more and the records written stay as they are.
C3_FailureAbortsRun ==
    [][/\ (error = NoError /\ error' # NoError) =>
             /\ pc' \in {"failed", "aborted"}
             /\ results' = results
       /\ error # NoError => UNCHANGED <<pc, calls, results, model_instances>>]_vars

\* C3 witness: train failed with records on disk and permutations left to run
C3_Witness ==
    /\ pc = "aborted"
    /\ error = PluginError("train")
    /\ results # {}
    /\ (pi < Len(param_sets) \/ mi < Len(models))

\* the keys under which the run instantiated a permutation
InitCalls == {j \in DOMAIN calls : calls[j].op = "init"}

\* C4 (as claimed): after a run that completes, the store holds one record per
\* permutation executed, no two permutations of the run having the same key.
C4_OneRecordPerPermutation ==
    pc = "done" =>
        /\ Cardinality(results) = Cardinality(InitCalls)
        /\ \A a, b \in InitCalls : a # b => calls[a].key # calls[b].key

Elems(list) == {list[j] : j \in DOMAIN list}

RECURSIVE ProductOfLengths(_)
ProductOfLengths(spec) ==
    IF Len(spec) = 0 THEN 1 ELSE Len(spec[1].v) * ProductOfLengths(Tail(spec))

\* C5: _parameter_iterations yields n1*...*nk assignments, each pairing every
\* declared name with a value of its list, and every combination of the
\* Cartesian product is among them; None and {} yield the empty mapping alone.
C5_FullGrid ==
    fn.op = "parameter_iterations" =>
        LET spec == fn.parameters.items
            out == fn.yielded
        IN IF fn.parameters.isNone \/ Len(spec) = 0
           THEN out = << <<>> >>
           ELSE /\ Len(out) = ProductOfLengths(spec)
                /\ \A n \in DOMAIN out :
                      /\ KeyList(out[n]) = KeyList(spec)
                      /\ \A j \in DOMAIN spec : out[n][j].v \in Elems(spec[j].v)
                /\ \A c \in [DOMAIN spec -> CandValues] :
                      (\A j \in DOMAIN spec : c[j] \in Elems(spec[j].v)) =>
                          \E n \in DOMAIN out : \A j \in DOMAIN spec : out[n][j].v = c[j]

\* C5 witness: a grid of two parameters with two candidate values each
C5_Witness ==
    /\ fn.op = "parameter_iterations"
    /\ ~fn.parameters.isNone
    /\ Len(fn.parameters.items) = 2
    /\ Len(fn.yielded) = 4

\* the specification is one the validator accepts: no empty candidate list
AllNonEmpty(spec) == \A j \in DOMAIN spec : Len(spec[j].v) > 0
\* no candidate list holds a value twice
NoRepeats(spec) ==
    \A j \in DOMAIN spec : \A a, b \in DOMAIN spec[j].v :
        a # b => spec[j].v[a] # spec[j].v[b]
PairwiseDistinct(out) == \A a, b \in DOMAIN out : a # b => ~DictEq(out[a], out[b])

\* C6 (as claimed): for a specification with no empty candidate list the
\* assignments yielded by one call are pairwise distinct.
C6_DistinctAssignments ==
    (fn.op = "parameter_iterations" /\ AllNonEmpty(fn.parameters.items)) =>
        PairwiseDistinct(fn.yielded)

\* C6 (amended): for a specification with no empty candidate list and no value
\* repeated within a candidate list, the assignments yielded by one call are
\* pairwise distinct.
C6_DistinctWithoutRepeats ==
    (/\ fn.op = "parameter_iterations"
     /\ AllNonEmpty(fn.parameters.items)
     /\ NoRepeats(fn.parameters.items)) =>
        PairwiseDistinct(fn.yielded)

\* C6 witness: a grid of several assignments from lists without repeats
C6_Witness ==
    /\ fn.op = "parameter_iterations"
    /\ Len(fn.parameters.items) > 0
    /\ AllNonEmpty(fn.parameters.items)
    /\ NoRepeats(fn.parameters.items)
    /\ Len(fn.yielded) >= 4

\* the dict d with its items inserted in the order f
Reordered(d, f) == [j \in DOMAIN d |-> d[f[j]]]

\* C7: _model_key gives the same key for every insertion order of the same
\* name/value pairs.
C7_KeyOrderInvariant ==
    fn.op = "model_key" =>
        \A f \in Permutations(DOMAIN fn.parameters) :
            ModelKey(fn.model_name, Reordered(fn.parameters, f)) = fn.key

\* C7 witness: a key made from three parameters inserted out of sorted order
C7_Witness ==
    /\ fn.op = "model_key"
    /\ Len(fn.parameters) = 3
    /\ KeyList(fn.parameters) = <<"n_epochs", "epochs", "l1">>
    /\ fn.key = "linear-epochs_1-l1_2-n_epochs_1"

\* the mapping the harness's validate returned for the permutation with this key
ReturnedFor(key) ==
    calls[CHOOSE j \in DOMAIN calls : calls[j].op = "validate" /\ calls[j].key = key].ret

\* the configuration of the end-to-end case: one model, epochs over [1, 2],
\* one required metric
EpochsCase ==
    /\ Len(model_config) = 1
    /\ model_config[1].name = "modelName"
    /\ "parameters" \in model_config[1].keys
    /\ model_config[1].parameters = <<Item("epochs", <<PyInt(1), PyInt(2)>>)>>
    /\ config.validation_metrics = <<"AUC">>

\* C8: one model with epochs over [1, 2] and one required metric gives exactly
\* two records, keyed modelName-epochs_1 and modelName-epochs_2, each with the
\* model's name, its own assignment and the mapping validate returned for it.
C8_EpochsEndToEnd ==
    (pc = "done" /\ EpochsCase) =>
        /\ results =
              {[key |-> "modelName-epochs_1",
                json |-> [model |-> "modelName",
                          parameters |-> <<Item("epochs", PyInt(1))>>,
                          metrics |-> ReturnedFor("modelName-epochs_1")]],
               [key |-> "modelName-epochs_2",
                json |-> [model |-> "modelName",
                          parameters |-> <<Item("epochs", PyInt(2))>>,
                          metrics |-> ReturnedFor("modelName-epochs_2")]]}
        /\ \A r \in results : "AUC" \in Keys(r.json.metrics)

\* C8 witness: the end-to-end run completed with different metric values
C8_Witness ==
    /\ pc = "done"
    /\ EpochsCase
    /\ Cardinality({r.json.metrics : r \in results}) = 2

\* a selected model declares a hyperparameter with an empty candidate list
HasEmptyList ==
    \E j \in DOMAIN model_config :
        /\ "parameters" \in model_config[j].keys
        /\ \E h \in DOMAIN model_config[j].parameters :
              Len(model_config[j].parameters[h].v) = 0

\* C9: when a selected model declares an empty candidate list the constructor
\* never completes (validation is still going on, or it has failed with an
\* error), and nothing is called, instantiated or written.
C9_EmptyListAborts ==
    HasEmptyList =>
        /\ pc \in {"models_loaded", "validate_model", "failed"}
        /\ pc = "failed" => error # NoError
        /\ pc # "failed" => ENABLED (ValidateModelConfigBegin \/ ValidateModel)
        /\ model_instances = {}
        /\ results = {}
        /\ calls = <<>>

\* C9 witness: validation failed on the empty list after an earlier model passed
C9_Witness ==
    /\ HasEmptyList
    /\ pc = "failed"
    /\ error = Exception("Hyper-parameter values for empty must be a non-zero length list")
    /\ Len(models) = 2

\* C10 (as claimed): once _validate_config has succeeded the list of required
\* validation metrics is non-empty.
C10_MetricRequired ==
    pc \notin {"construct", "failed"} => Len(config.validation_metrics) > 0

\* the keys _validate_config requires, in the order it tests them
CheckOrder ==
    <<"bootcamp", "bootcamp.module", "bootcamp.callable", "model_requirements",
      "model_requirements.validation_metrics", "model_requirements.methods">>

LacksRequired(cfg) == \E j \in DOMAIN CheckOrder : CheckOrder[j] \notin cfg.keys

\* the first required key, in the order of the checks, that cfg lacks
FirstMissing(cfg) ==
    CheckOrder[CHOOSE j \in DOMAIN CheckOrder :
                  /\ CheckOrder[j] \notin cfg.keys
                  /\ \A h \in 1..(j - 1) : CheckOrder[h] \in cfg.keys]

\* a configuration that lacks the key k and nothing else
OnlyMissing(k) ==
    [keys |-> ConfigKeys \ {k}, validation_metrics |-> <<>>, methods |-> <<>>,
     parameters |-> <<>>]

\* C11: a configuration that lacks a required key is rejected before the
\* harness is instantiated, with the error raised for the first missing key of
\* the check order, which is the error of no other missing key.
C11_MissingFieldIdentified ==
    LacksRequired(config) =>
        /\ pc \in {"construct", "failed"}
        /\ bootcamp.isNone
        /\ pc = "failed" =>
              /\ error.type = "Exception"
              /\ error = ConfigKeyError(OnlyMissing(FirstMissing(config)))
              /\ \A j \in DOMAIN CheckOrder :
                    CheckOrder[j] # FirstMissing(config) =>
                        error # ConfigKeyError(OnlyMissing(CheckOrder[j]))

\* C11 witness: both validation_metrics and methods are missing and the error
\* is the one of validation_metrics, the first of the two to be tested
C11_Witness ==
    /\ pc = "failed"
    /\ "model_requirements" \in config.keys
    /\ "model_requirements.validation_metrics" \notin config.keys
    /\ "model_requirements.methods" \notin config.keys
    /\ "bootcamp.callable" \in config.keys
    /\ error = Exception("Models must be assessed with at least one validation metric: model_requirements.validation_metrics")

\* the class has the method the entry m of model_requirements.methods asks for
HasRequiredMethod(cls, m) ==
    \E a \in cls.attrs : a.name = m.name /\ a.kind = "method"

\* that method takes every argument m names
HasRequiredArguments(cls, m) ==
    \A a \in cls.attrs :
        a.name = m.name => \A j \in DOMAIN m.args : m.args[j] \in a.params

\* the constructor takes every hyperparameter the harness requires of all models
InitHasGlobalParameters(cls, cfg) ==
    \A j \in DOMAIN cfg.parameters : cfg.parameters[j] \in cls.init

\* the constructor takes every hyperparameter the model declares
InitHasDeclaredParameters(entry) ==
    \A j \in DOMAIN entry.parameters : entry.parameters[j].k \in entry.cls.init

\* the checks of C12, stated on the class and the configuration themselves
SatisfiesContract(entry, cfg) ==
    /\ \A j \in DOMAIN cfg.methods :
          /\ HasRequiredMethod(entry.cls, cfg.methods[j])
          /\ HasRequiredArguments(entry.cls, cfg.methods[j])
    /\ InitHasGlobalParameters(entry.cls, cfg)
    /\ InitHasDeclaredParameters(entry)

\* the constructor has returned
Constructed ==
    pc \in {"ready", "model", "iterate", "train", "validate", "check", "write",
            "done", "aborted"}

\* C12: model validation goes past a selected model only if its class has
\* every required method with every required argument and its constructor
\* takes every global and every declared hyperparameter; the constructor
\* returns only if every selected model does, and a model that does not is
\* rejected with an error.
C12_ContractEnforced ==
    /\ pc = "validate_model" =>
          \A j \in 1..(vi - 1) : SatisfiesContract(model_config[j], config)
    /\ Constructed =>
          \A j \in DOMAIN model_config : SatisfiesContract(model_config[j], config)
    /\ (pc = "failed" /\ vi > 0) =>
          /\ error # NoError
          /\ \A j \in 1..(vi - 1) : SatisfiesContract(model_config[j], config)

\* C12 witness: the constructor returned for a model under the
\* configuration that requires train(text), predict and n_epochs
C12_Witness ==
    /\ pc = "ready"
    /\ Len(model_config) = 1
    /\ model_config[1].name = "linear"
    /\ Len(config.methods) = 2
    /\ config.parameters = <<"n_epochs">>

\* a model that fails one check only is rejected by that check
C12_RejectedWitness ==
    /\ pc = "failed"
    /\ vi > 0
    /\ model_config[vi].name = "predictor"
    /\ config.parameters = <<"n_epochs">>
    /\ HasRequiredMethod(model_config[vi].cls, config.methods[1])

\* the position of a model in the registry
RegistryIndex(model_name) ==
    CHOOSE j \in DOMAIN models : models[j].name = model_name

\* the number of instantiations of a model among the first j events
InitsOf(model_name, j) ==
    Cardinality({h \in 1..j : calls[h].op = "init" /\ calls[h].model = model_name})

\* the events j - 1 and j belong to the same permutation
SamePermutation(j) ==
    /\ calls[j - 1].model = calls[j].model
    /\ calls[j - 1].key = calls[j].key
    /\ calls[j - 1].obj = calls[j].obj

\* the grid of a registered model, as _parameter_iterations yields it
GridOf(model_name) ==
    LET entry == Declared(model_name)
    IN ParameterIterations(IF "parameters" \in entry.keys
                           THEN Some(entry.parameters) ELSE None)

\* C13: the events of the run come in blocks instantiate, train, validate,
\* write, of one permutation and one instance each; a write follows a validate
\* whose mapping has every required metric; an instantiation follows the write
\* of the permutation before it; the models come in registry order without
\* interleaving and the assignments of a model in the order of its grid.
C13_LoopOrder ==
    \A j \in DOMAIN calls :
        /\ calls[j].op = "init" =>
              /\ j = 1 \/ calls[j - 1].op = "write"
              /\ \A h \in 1..(j - 1) : calls[h].op = "init" => calls[h].obj # calls[j].obj
              /\ InitsOf(calls[j].model, j) <= Len(GridOf(calls[j].model))
              /\ calls[j].obj.kwargs =
                     GridOf(calls[j].model)[InitsOf(calls[j].model, j)]
        /\ calls[j].op = "train" =>
              j > 1 /\ calls[j - 1].op = "init" /\ SamePermutation(j)
        /\ calls[j].op = "validate" =>
              j > 1 /\ calls[j - 1].op = "train" /\ SamePermutation(j)
        /\ calls[j].op = "write" =>
              /\ j > 1 /\ calls[j - 1].op = "validate" /\ SamePermutation(j)
              /\ \A h \in DOMAIN config.validation_metrics :
                    config.validation_metrics[h] \in Keys(calls[j - 1].ret)
              /\ \E r \in results : r.key = calls[j].key
        /\ j > 1 => RegistryIndex(calls[j - 1].model) <= RegistryIndex(calls[j].model)

\* C13 witness: a run of two models and three permutations has returned
C13_Witness ==
    /\ pc = "done"
    /\ Len(models) = 2
    /\ models[1].name = "linear"
    /\ Len(calls) = 12
    /\ calls[5].op = "init" /\ calls[5].model = "linear"
    /\ calls[9].op = "init" /\ calls[9].model = models[2].name

\* the number of instances built during the first j events; the instances are
\* numbered in the order in which they are built
InitsUpTo(j) == Cardinality({h \in 1..j : calls[h].op = "init"})

\* C14 as stated: between iterations self.model_instances holds no instance
C14_NoInstanceRetained ==
    pc \in {"model", "iterate", "done"} => model_instances = {}

\* C14 amended: every iteration builds an instance of its own and no train or
\* validate call receives the instance of another iteration, but the
\* instance stays in self.model_instances after its iteration: in every state
\* the store holds, under every key instantiated so far, the instance built
\* last under that key, with its parameters, and nothing else.
C14_InstancesRetained ==
    /\ \A j \in DOMAIN calls :
          calls[j].op = "init" =>
              \E r \in model_instances :
                  /\ r.key = calls[j].key
                  /\ r.object.id >= calls[j].obj.id
    /\ \A r \in model_instances :
          /\ \E j \in DOMAIN calls :
                /\ calls[j].op = "init"
                /\ calls[j].key = r.key
                /\ calls[j].obj = r.object
                /\ r.key = ModelKey(calls[j].model, r.parameters)
          /\ r.parameters = r.object.kwargs
          /\ \A q \in model_instances : q.key = r.key => q = r
    /\ \A j \in DOMAIN calls :
          /\ calls[j].op = "init" => calls[j].obj.id = InitsUpTo(j)
          /\ calls[j].op \in {"train", "validate"} =>
                \E h \in 1..(j - 1) :
                    /\ calls[h].op = "init" /\ calls[h].obj = calls[j].obj
                    /\ calls[h].obj.id = InitsUpTo(j)

\* C14 witness: the run is over and the instances of three permutations of two
\* models are still in the store
C14_Witness ==
    /\ pc = "done"
    /\ Cardinality(model_instances) = 3
    /\ Cardinality({r.object.cls : r \in model_instances}) = 2

\* the entry names a module and a callable and the class can be imported
Importable(entry) ==
    /\ {"module", "callable"} \subseteq entry.keys
    /\ entry.importable

\* every declared list of candidate values has a value
NonEmptyCandidateLists(entry) ==
    \A j \in DOMAIN entry.parameters : Len(entry.parameters[j].v) > 0

\* the class of the entry passes all contract checks
PassesAllChecks(entry, cfg) ==
    /\ SatisfiesContract(entry, cfg)
    /\ NonEmptyCandidateLists(entry)

\* C15 as stated: every registered class has passed all contract checks
C15_OnlyValidatedRegistered ==
    \A j \in DOMAIN models : PassesAllChecks(Declared(models[j].name), config)

\* C15 amended: the registry is a prefix of the selected models, in their
\* order; a class is registered once it is imported and before it is checked,
\* so every registered class has passed all contract checks at the start of
\* every iteration of the validation loop and when the constructor has
\* returned, while in the state in which validation aborts on a contract
\* violation the class that failed is the last entry of the registry.
C15_RegisteredBeforeChecked ==
    /\ Len(models) <= Len(model_config)
    /\ \A j \in DOMAIN models :
          /\ models[j].name = model_config[j].name
          /\ models[j].cls = model_config[j].cls
          /\ Importable(model_config[j])
          /\ \/ PassesAllChecks(model_config[j], config)
             \/ pc = "failed" /\ j = vi /\ j = Len(models)
    /\ pc = "validate_model" => Len(models) = vi - 1
    /\ Constructed => Len(models) = Len(model_config)
    /\ (pc = "failed" /\ vi > 0) =>
          IF Importable(model_config[vi])
          THEN /\ Len(models) = vi
               /\ ~PassesAllChecks(model_config[vi], config)
          ELSE Len(models) = vi - 1

\* C15 witness: validation aborted on the second model, whose class takes no
\* l1 argument, and both classes are in the registry
C15_Witness ==
    /\ pc = "failed"
    /\ vi = 2
    /\ Len(models) = 2
    /\ models[2].name = "badarg"
    /\ PassesAllChecks(model_config[1], config)
    /\ ~InitHasDeclaredParameters(model_config[2])

\* the harness methods _validate_config requires, in the order it checks them
HarnessMethods == <<"train", "validate">>

\* the harness method j is the first one to fail a check, and fails by absence
HarnessFirstLacks(cls, j) ==
    /\ ~HasRequiredMethod(cls, Method(HarnessMethods[j]))
    /\ \A h \in 1..(j - 1) :
          /\ HasRequiredMethod(cls, Method(HarnessMethods[h]))
          /\ "model" \in GetAttr(cls, HarnessMethods[h]).params

\* the entry j of model_requirements.methods is the first one the class fails,
\* and it fails it by absence
ModelFirstLacks(cls, cfg, j) ==
    /\ ~HasRequiredMethod(cls, cfg.methods[j])
    /\ \A h \in 1..(j - 1) :
          /\ HasRequiredMethod(cls, cfg.methods[h])
          /\ HasRequiredArguments(cls, cfg.methods[h])

\* C16: when validation fails on a harness or model class that lacks a
\* required method, the error is the validator's exception naming the entity
\* and the method.
C16_MissingMethodReported ==
    /\ (pc = "failed" /\ ~bootcamp.isNone /\ vi = 0) =>
          \A j \in DOMAIN HarnessMethods :
              HarnessFirstLacks(bootcamp.cls, j) =>
                  error = Exception("Basecamp class at " \o bootcamp.cls.name
                                    \o " does not have required "
                                    \o HarnessMethods[j] \o "() method.")
    /\ (pc = "failed" /\ vi > 0 /\ Len(models) = vi) =>
          \A j \in DOMAIN config.methods :
              ModelFirstLacks(models[vi].cls, config, j) =>
                  error = Exception(models[vi].name \o " does not have the required "
                                    \o config.methods[j].name \o "() method")

\* a models argument was passed to Bootcamp()
FilterPassed == models_arg.kind # "none"

\* the names of the filter, a single name being a one-element list
FilterNames ==
    IF models_arg.kind = "str" THEN {models_arg.str}
    ELSE {models_arg.list[j] : j \in DOMAIN models_arg.list}

\* the filter names no model of models.yml
SelectsNothing == \A j \in DOMAIN models_yml : models_yml[j].name \notin FilterNames

\* C17: when a filter is passed, only the declared models it names are
\* selected, validated, registered, run and written, a validation error is
\* caused by a named model only, and a filter that names no declared model
\* makes the constructor fail with the 'One or more models' error.
C17_FilterRestricts ==
    FilterPassed =>
        /\ \A j \in DOMAIN model_config :
              /\ model_config[j].name \in FilterNames
              /\ \E h \in DOMAIN models_yml : models_yml[h] = model_config[j]
        /\ \A j \in DOMAIN models : models[j].name \in FilterNames
        /\ \A j \in DOMAIN calls : calls[j].model \in FilterNames
        /\ \A r \in results : r.json.model \in FilterNames
        /\ (pc = "failed" /\ vi > 0) => model_config[vi].name \in FilterNames
        /\ (SelectsNothing /\ pc # "models_loaded") =>
              /\ pc = "failed"
              /\ error = Exception("One or more models must be submitted to bootcamp: models")
              /\ models = <<>>

\* C18: once the constructor has returned, no step of train_test_validate,
\* successful or failing, changes the registry, the harness object or the two
\* loaded configurations.
C18_ReadOnlyAfterValidation ==
    [][Constructed => UNCHANGED <<models, bootcamp, config, model_config>>]_vars

\* C18 witness: the run of a model with declared hyperparameters was aborted
\* by a failing validate after a permutation was written
C18_Witness ==
    /\ pc = "aborted"
    /\ error = PluginError("validate")
    /\ Len(calls) >= 7
    /\ \E j \in DOMAIN model_config : "parameters" \in model_config[j].keys
    /\ Len(models) = Len(model_config)
    /\ ~bootcamp.isNone

\* the instantiations of a model with an assignment
RunsOf(model_name, assignment) ==
    {j \in DOMAIN calls : /\ calls[j].op = "init"
                          /\ calls[j].model = model_name
                          /\ calls[j].obj.kwargs = assignment}

\* the harness calls of one kind that received the instance built at event j
CallsWith(op, j) ==
    {h \in DOMAIN calls : calls[h].op = op /\ calls[h].obj = calls[j].obj}

\* the number of positions of a grid that hold an assignment
Occurrences(grid, assignment) ==
    Cardinality({n \in DOMAIN grid : grid[n] = assignment})

\* every instance built was trained once and validated once
EveryInstanceRun ==
    \A j \in DOMAIN calls :
        calls[j].op = "init" =>
            /\ Cardinality(CallsWith("train", j)) = 1
            /\ Cardinality(CallsWith("validate", j)) = 1
            /\ \E h \in DOMAIN models :
                  /\ models[h].name = calls[j].model
                  /\ calls[j].obj.kwargs \in Elems(GridOf(models[h].name))

\* C19 as stated: when the run has returned, every pair of a registered model
\* and an assignment of its grid was instantiated, trained and validated
\* exactly once.
C19_EveryPairOnce ==
    pc = "done" =>
        /\ EveryInstanceRun
        /\ \A h \in DOMAIN models :
              \A a \in Elems(GridOf(models[h].name)) :
                  Cardinality(RunsOf(models[h].name, a)) = 1

\* the run has covered the grid of every registered model
GridCovered ==
    /\ EveryInstanceRun
    /\ \A h \in DOMAIN models :
          LET model_name == models[h].name
              entry == Declared(model_name)
          IN /\ \A a \in Elems(GridOf(model_name)) :
                   /\ Cardinality(RunsOf(model_name, a)) =
                          Occurrences(GridOf(model_name), a)
                   /\ NoRepeats(entry.parameters) =>
                          Cardinality(RunsOf(model_name, a)) = 1
             /\ "parameters" \notin entry.keys =>
                   /\ GridOf(model_name) = << <<>> >>
                   /\ Cardinality(RunsOf(model_name, <<>>)) = 1

\* C19 amended: if no constructor, train, validate, metric check or write
\* fails, train_test_validate terminates, and when it has returned every
\* assignment of the grid of every registered model was instantiated, trained
\* and validated as many times as the grid holds it: exactly once when no
\* candidate list of the model repeats a value, and once with the empty
\* assignment for a model without declared hyperparameters. The state in
\* which it has returned is final, so reaching it covered is being covered at
\* termination.
C19_TerminatesCovering ==
    (pc = "model") ~> (error # NoError \/ (pc = "done" /\ GridCovered))

\* C19 witness: the run of a model whose candidate list repeats a value and
\* of a model without declared hyperparameters has returned
C19_Witness ==
    /\ pc = "done"
    /\ Len(models) = 2
    /\ models[1].name = "repeat"
    /\ "parameters" \notin Declared(models[2].name).keys
    /\ Cardinality(RunsOf("repeat", <<Item("epochs", PyInt(3))>>)) = 2

\* C20: every record of the result store has every required metric in its
\* metrics mapping, names a registered model, holds an assignment of that
\* model's grid and is stored under _model_key of the model name and that
\* assignment.
C20_RecordsWellFormed ==
    \A r \in results :
        /\ \A j \in DOMAIN config.validation_metrics :
              config.validation_metrics[j] \in Keys(r.json.metrics)
        /\ \E h \in DOMAIN models : models[h].name = r.json.model
        /\ r.json.parameters \in Elems(GridOf(r.json.model))
        /\ r.key = ModelKey(r.json.model, r.json.parameters)
        /\ \A q \in results : q.key = r.key => q = r

\* C20 witness: two required metrics, and both permutations of a model written
C20_Witness ==
    /\ Len(config.validation_metrics) = 2
    /\ Cardinality(results) = 2
    /\ \E r \in results : r.json.parameters # param_sets[1]
    /\ pc = "done"

=============================================================================
